---- MODULE Spec2Model ----
(***************************************************************************)
(* A model of the Legal Motion Assistant (src/main.py): a Streamlit script *)
(* that is re-run on every interaction.  The persisted registry            *)
(* (config2.json), the session state, the Admin operations and the chat    *)
(* turn handler with its drafting orchestrator                             *)
(* (stream_response_with_file_search) are modelled.                        *)
(*                                                                         *)
(* Text is a sequence of string tokens; string concatenation is \o.        *)
(* A Python dict / object is a record; a missing key or attribute is a     *)
(* field that is not in the record's DOMAIN.  An operation that can raise  *)
(* returns a record with a field "raised".                                 *)
(***************************************************************************)
EXTENDS Integers, Sequences, FiniteSets, TLC

\* ---------------------------------------------------------------- bounds
MaxTurns == 2        \* completed chat turns of a session
MaxEvents == 3       \* events of one stream, when every event shape is tried
MaxFiles == 2        \* files uploaded with one turn, when every upload is tried
MaxStores == 3       \* vector stores that exist at the backend

\* ------------------------------------------------------- static config
MOTION_OPTIONS ==
    [value_claim |-> "Motion to Value Secured Claim",
     avoid_lien |-> "Motion to Avoid Judicial Lien"]

\* dict iteration order of MOTION_OPTIONS
MOTION_SLUGS == <<"value_claim", "avoid_lien">>

SELECT_PLACEHOLDER == "-- Select --"

SYSTEM_INSTRUCTIONS == <<"SYSTEM_INSTRUCTIONS">>

\* Python's None, where a string is expected
None == "None"

\* the sentinel the extraction prompt tells the extractor to emit
PROMPT_SENTINEL == "NO_RELEVANT_INFO_FOUND_IN_UPLOAD"

\* the literal the chat handler compares the extraction text with
HANDLER_SENTINEL == "NO_RELEVANT_INFO"

APP_PASSWORD == "secret"

\* ------------------------------------------------------------- helpers
hasattr(o, a) == a \in DOMAIN o

Range(s) == {s[i] : i \in 1..Len(s)}

SeqsUpTo(S, n) == UNION {[1..k -> S] : k \in 0..n}

IsPrefix(s, t) == Len(s) <= Len(t) /\ SubSeq(t, 1, Len(s)) = s

\* sep.join(parts) for parts that are token sequences
RECURSIVE join(_, _)
join(sep, parts) ==
    IF parts = <<>> THEN <<>>
    ELSE IF Len(parts) = 1 THEN parts[1]
    ELSE parts[1] \o <<sep>> \o join(sep, Tail(parts))

WHITESPACE == {" ", "\n"}

RECURSIVE lstrip(_)
lstrip(s) ==
    IF s # <<>> /\ Head(s) \in WHITESPACE THEN lstrip(Tail(s)) ELSE s

RECURSIVE rstrip(_)
rstrip(s) ==
    IF s # <<>> /\ s[Len(s)] \in WHITESPACE
    THEN rstrip(SubSeq(s, 1, Len(s) - 1)) ELSE s

\* str.strip()
strip(s) == rstrip(lstrip(s))

\* ------------------------------------------------------- persisted cfg
EmptyDict == [k \in {} |-> None]

\* d[k] = v on a dict
setitem(d, k, v) == (k :> v) @@ d

\* json.dump: the document is the set of its members
json_dump(c) == [wellformed |-> TRUE, members |-> {<<k, c[k]>> : k \in DOMAIN c}]

\* json.load: raises on a malformed document
json_load(text) ==
    IF text.wellformed
    THEN [raised |-> FALSE,
          value |-> [k \in {m[1] : m \in text.members} |->
                        (CHOOSE m \in text.members : m[1] = k)[2]]]
    ELSE [raised |-> TRUE]

load_cfg(file) ==
    IF ~file.exists
    THEN [raised |-> FALSE, value |-> [vector_stores |-> EmptyDict]]
    ELSE LET parsed == json_load(file.text) IN
         IF parsed.raised THEN [raised |-> TRUE]
         ELSE [raised |-> FALSE,
               value |-> parsed.value @@ ("vector_stores" :> EmptyDict)]

save_cfg(c) == [exists |-> TRUE, text |-> json_dump(c)]

\* Path(CFG_PATH).unlink(missing_ok=True)
unlink_cfg == [exists |-> FALSE]

\* ------------------------------------------------------------ password
\* hmac.compare_digest(str(entered), str(APP_PASSWORD))
compare_digest(a, b) == a = b

\* ------------------------------------------------------ gemini extract
\* out is what the document-understanding backend does for this file
gem_extract(out) ==
    IF out.kind = "text"
    THEN [raised |-> FALSE, value |-> strip(out.text)]
    ELSE [raised |-> TRUE]

\* ------------------------------------------------- html -> pdf function
\* mutant: a request that raised is reported with the default filename
convert_html_to_pdf_default_name(html_content, filename, svc) ==
    IF svc.kind = "raise"
    THEN [success |-> FALSE, url |-> None, filename |-> "document.pdf",
          error |-> svc.msg]
    ELSE LET result == svc.body IN
         IF hasattr(result, "error") /\ result.error = FALSE
            /\ hasattr(result, "url") /\ result.url # ""
         THEN [success |-> TRUE, url |-> result.url, filename |-> filename,
               error |-> None]
         ELSE [success |-> FALSE, url |-> None, filename |-> filename,
               error |-> IF hasattr(result, "message") THEN result.message
                         ELSE "Unknown error"]

\* svc is what the PDF.co service does for this request
convert_html_to_pdf(html_content, filename, svc) ==
    IF svc.kind = "raise"
    THEN [success |-> FALSE, url |-> None, filename |-> filename,
          error |-> svc.msg]
    ELSE LET result == svc.body IN
         IF hasattr(result, "error") /\ result.error = FALSE
            /\ hasattr(result, "url") /\ result.url # ""
         THEN [success |-> TRUE, url |-> result.url, filename |-> filename,
               error |-> None]
         ELSE [success |-> FALSE, url |-> None, filename |-> filename,
               error |-> IF hasattr(result, "message") THEN result.message
                         ELSE "Unknown error"]

dict_get(d, k, default) == IF hasattr(d, k) THEN d[k] ELSE default

handle_function_call(function_name, function_args, svc) ==
    IF function_name = "convert_html_to_pdf"
    THEN convert_html_to_pdf(dict_get(function_args, "html_content", ""),
                             dict_get(function_args, "filename", "document.pdf"),
                             svc)
    ELSE [success |-> FALSE,
          error |-> <<"Unknown function: ", function_name>>]

\* ------------------------------------------------------ container files
\* The call at lines 596-600: no function of this name is defined (the
\* statements after handle_function_call's return are unreachable), so the
\* call raises NameError whatever the container would have answered.
download_container_file(ann, container) ==
    [raised |-> TRUE, exc |-> "NameError"]

RECURSIVE annotations_of_content(_)
annotations_of_content(anns) ==
    IF anns = <<>> THEN <<>>
    ELSE LET ann == Head(anns) IN
         (IF hasattr(ann, "type") /\ ann.type = "container_file_citation"
          THEN <<[container_id |-> ann.container_id, file_id |-> ann.file_id,
                  filename |-> ann.filename]>>
          ELSE <<>>) \o annotations_of_content(Tail(anns))

RECURSIVE annotations_of_item(_)
annotations_of_item(contents) ==
    IF contents = <<>> THEN <<>>
    ELSE (IF hasattr(Head(contents), "annotations")
          THEN annotations_of_content(Head(contents).annotations)
          ELSE <<>>) \o annotations_of_item(Tail(contents))

RECURSIVE annotations_of_output(_)
annotations_of_output(output) ==
    IF output = <<>> THEN <<>>
    ELSE (IF hasattr(Head(output), "content")
          THEN annotations_of_item(Head(output).content)
          ELSE <<>>) \o annotations_of_output(Tail(output))

extract_annotations_from_response(response_obj) ==
    IF hasattr(response_obj, "output")
    THEN annotations_of_output(response_obj.output)
    ELSE <<>>

\* ---------------------------------------------------- context assembly
\* mutant: an empty value is written as it is
or_unspecified_keeps_empty(v) == v

\* juris or '(unspecified)'
or_unspecified(v) == IF v # "" THEN v ELSE "(unspecified)"

\* next(k for k, v in MOTION_OPTIONS.items() if v == motion_label), else None
slug_of(motion_label) ==
    IF motion_label # SELECT_PLACEHOLDER
       /\ \E k \in DOMAIN MOTION_OPTIONS : MOTION_OPTIONS[k] = motion_label
    THEN CHOOSE k \in DOMAIN MOTION_OPTIONS : MOTION_OPTIONS[k] = motion_label
    ELSE None

\* the test `gem_text and gem_text != "NO_RELEVANT_INFO"`
keep_block(gem_text) == gem_text # <<>> /\ gem_text # <<HANDLER_SENTINEL>>

extract_block(name, gem_text) ==
    <<"EXTRACTED_FROM_UPLOAD File name (", name, "):\n">> \o gem_text

\* mutant: the extraction section is appended even when there is no block
build_motion_context_always_section(label, jur, chap, blocks) ==
    join("\n", << <<"Motion type: ", label>>,
                  <<"Jurisdiction: ", or_unspecified(jur)>>,
                  <<"Chapter: ", or_unspecified(chap)>>,
                  join("\n", blocks) >>)

build_motion_context(label, jur, chap, blocks) ==
    LET context_parts ==
            << <<"Motion type: ", label>>,
               <<"Jurisdiction: ", or_unspecified(jur)>>,
               <<"Chapter: ", or_unspecified(chap)>> >>
            \o (IF blocks # <<>> THEN <<join("\n", blocks)>> ELSE <<>>)
    IN join("\n", context_parts)

\* any(f.name.lower().endswith(".pdf") for f in uploaded)
lower_endswith_pdf(name) == name \in {"schedule.pdf", "SCHEDULE.PDF"}

any_pdf(files) == \E i \in 1..Len(files) : lower_endswith_pdf(files[i].name)

\* mutant: turns with empty content are left out of the conversation
conversation_of_drops_empty(hist) ==
    SelectSeq([i \in 1..Len(hist) |->
                  [role |-> hist[i].role, content |-> hist[i].content]],
              LAMBDA t : t.content # <<>>)

\* conversation_history: role and content of every turn of the history
conversation_of(hist) ==
    [i \in 1..Len(hist) |-> [role |-> hist[i].role, content |-> hist[i].content]]

\* input_items of the drafting request
input_items_of(conversation, context) ==
    <<[role |-> "system", content |-> SYSTEM_INSTRUCTIONS],
      [role |-> "system", content |-> context]>> \o conversation

\* ------------------------------------------------------- orchestrator
\* mutant: a delta is put in front of the accumulated text
stream_event_prepend(st, event) ==
    IF /\ hasattr(event, "type") /\ event.type = "response.output_text.delta"
       /\ hasattr(event, "delta") /\ event.delta # <<>>
    THEN [st EXCEPT !.full_text = event.delta \o st.full_text,
                    !.holder = event.delta \o st.full_text]
    ELSE IF /\ hasattr(event, "type") /\ event.type = "response.created"
            /\ hasattr(event, "response") /\ hasattr(event.response, "id")
    THEN [st EXCEPT !.response_id = event.response.id]
    ELSE IF /\ hasattr(event, "type")
            /\ event.type = "response.function_call_arguments.done"
            /\ hasattr(event, "function_call")
    THEN [st EXCEPT !.function_calls = Append(@, event.function_call)]
    ELSE st

\* mutant: a response.created event without an identifier clears the
\* retained identifier (getattr(..., None) instead of the hasattr tests)
stream_event_created_overwrites(st, event) ==
    IF /\ hasattr(event, "type") /\ event.type = "response.output_text.delta"
       /\ hasattr(event, "delta") /\ event.delta # <<>>
    THEN [st EXCEPT !.full_text = st.full_text \o event.delta,
                    !.holder = st.full_text \o event.delta]
    ELSE IF hasattr(event, "type") /\ event.type = "response.created"
    THEN [st EXCEPT !.response_id =
             IF hasattr(event, "response") /\ hasattr(event.response, "id")
             THEN event.response.id ELSE None]
    ELSE IF /\ hasattr(event, "type")
            /\ event.type = "response.function_call_arguments.done"
            /\ hasattr(event, "function_call")
    THEN [st EXCEPT !.function_calls = Append(@, event.function_call)]
    ELSE st

\* one iteration of the stream loop on the locals
\* st = [full_text, holder, response_id, function_calls]
stream_event(st, event) ==
    IF hasattr(event, "type")
    THEN IF event.type = "response.output_text.delta"
         THEN IF hasattr(event, "delta") /\ event.delta # <<>>
              THEN [st EXCEPT !.full_text = st.full_text \o event.delta,
                              !.holder = st.full_text \o event.delta]
              ELSE st
         ELSE IF event.type = "response.created"
         THEN IF hasattr(event, "response") /\ hasattr(event.response, "id")
              THEN [st EXCEPT !.response_id = event.response.id]
              ELSE st
         ELSE IF event.type = "response.function_call_arguments.done"
         THEN IF hasattr(event, "function_call")
              THEN [st EXCEPT !.function_calls = Append(@, event.function_call)]
              ELSE st
         ELSE st
    ELSE st

pdf_generated(filename) == <<"\n\nPDF Generated: ", filename>>

pdf_failed(error_msg) == <<"\n\nPDF Conversion Failed: ", error_msg>>

\* the body of `for fc in function_calls` for one fc; svc is what the
\* conversion service does, dl what the GET of the converted file does.
\* `called` lists the calls that returned; a call that raised is named by `at`.
\* st = [full_text, holder, files_to_download]
run_function_call(st, fc, svc, dl) ==
    IF hasattr(fc, "name") /\ fc.name = "convert_html_to_pdf"
    THEN LET parsed == IF fc.arguments.is_str
                       THEN json_load(fc.arguments.text)
                       ELSE [raised |-> FALSE, value |-> fc.arguments.value]
         IN
         IF parsed.raised
         THEN [raised |-> TRUE, at |-> "json.loads", called |-> <<>>]
         ELSE LET result == handle_function_call("convert_html_to_pdf",
                                                 parsed.value, svc)
              IN
              IF result.success /\ result.url # None
              THEN IF dl.kind = "raise"
                   THEN [raised |-> TRUE, at |-> "requests.get",
                         called |-> <<"convert_html_to_pdf">>,
                         args |-> parsed.value, result |-> result]
                   ELSE [raised |-> FALSE,
                         called |-> <<"convert_html_to_pdf", "requests.get">>,
                         args |-> parsed.value, result |-> result,
                         st |-> [full_text |-> st.full_text
                                         \o pdf_generated(result.filename),
                                 holder |-> st.full_text
                                         \o pdf_generated(result.filename),
                                 files_to_download |->
                                     Append(st.files_to_download,
                                            <<result.filename, dl.content>>)]]
              ELSE [raised |-> FALSE,
                    called |-> <<"convert_html_to_pdf">>,
                    args |-> parsed.value, result |-> result,
                    st |-> [st EXCEPT
                             !.full_text = st.full_text \o pdf_failed(result.error),
                             !.holder = st.full_text \o pdf_failed(result.error)]]
    ELSE [raised |-> FALSE, called |-> <<>>, st |-> st]

\* `for ann in annotations: ...`
RECURSIVE download_each(_, _, _)
download_each(anns, files, container) ==
    IF anns = <<>> THEN [raised |-> FALSE, files |-> files]
    ELSE LET r == download_container_file(Head(anns), container) IN
         IF r.raised THEN [raised |-> TRUE, files |-> files]
         ELSE download_each(Tail(anns),
                            IF r.file_bytes # ""
                            THEN Append(files, <<r.filename, r.file_bytes>>)
                            ELSE files,
                            container)

\* `if response_id:`
truthy_id(id) == id # None /\ id # ""

\* mutant: a retrieval that raises loses the artifacts resolved before it
\* and records nothing
retrieve_files_raise_drops(id, files, ret, container) ==
    IF truthy_id(id)
    THEN IF ret.kind = "raise"
         THEN [called |-> TRUE, warned |-> FALSE, files |-> <<>>]
         ELSE LET got == download_each(
                            extract_annotations_from_response(ret.response),
                            files, container)
              IN [called |-> TRUE, warned |-> got.raised, files |-> got.files]
    ELSE [called |-> FALSE, warned |-> FALSE, files |-> files]

\* the block `if response_id: try: ... except: st.warning(...)`;
\* ret is what responses.retrieve does, container the files the container
\* would serve
retrieve_files(id, files, ret, container) ==
    IF truthy_id(id)
    THEN IF ret.kind = "raise"
         THEN [called |-> TRUE, warned |-> TRUE, files |-> files]
         ELSE LET got == download_each(
                            extract_annotations_from_response(ret.response),
                            files, container)
              IN [called |-> TRUE, warned |-> got.raised, files |-> got.files]
    ELSE [called |-> FALSE, warned |-> FALSE, files |-> files]

\* =================================================================== state
VARIABLES
    env,                \* what the external services and the user can do
    configFile,         \* config2.json on disk
    backend_stores,     \* names of the vector stores the backend created; id = index
    cfg,                \* the module-level cfg of the current script run
    password_correct,   \* st.session_state["password_correct"] ("absent" if unset)
    password,           \* st.session_state["password"] ("absent" if unset)
    history,            \* st.session_state.history
    schedule_uploaded,  \* st.session_state.schedule_uploaded
    uploader_key,       \* st.session_state.uploader_key (a fresh key per reset)
    pc,                 \* position of the running chat turn ("idle": none)
    user_prompt, uploaded, motion_label, juris, chapter,   \* the turn's inputs
    i, extract_blocks, blobs_for_history,                  \* extraction loop
    motion_context, conversation_history, vector_store_ids, \* the drafting call
    events,             \* the events the running stream has delivered so far
    full_text, holder, response_id, function_calls,
    fc_i, files_to_download,
    answer, new_files,                                     \* what the call returned
    log,                \* calls and UI messages of the latest script run, in order
    hist0               \* Len(history) when the latest turn was submitted

regVars == <<configFile, backend_stores, cfg>>
sessVars == <<password_correct, password, history, schedule_uploaded, uploader_key>>
inVars == <<user_prompt, uploaded, motion_label, juris, chapter>>
extVars == <<i, extract_blocks, blobs_for_history>>
callVars == <<motion_context, conversation_history, vector_store_ids>>
orchVars == <<events, full_text, holder, response_id, function_calls,
              fc_i, files_to_download>>
retVars == <<answer, new_files>>
vars == <<env, regVars, sessVars, pc, inVars, extVars, callVars, orchVars,
          retVars, log, hist0>>

\* ------------------------------------------------------------ input pools
TextDelta(d) == [type |-> "response.output_text.delta", delta |-> d]

Created(id) == [type |-> "response.created", response |-> [id |-> id]]

FunctionCallDone(fc) ==
    [type |-> "response.function_call_arguments.done", function_call |-> fc]

PdfCall ==
    [name |-> "convert_html_to_pdf",
     arguments |-> [is_str |-> TRUE,
                    text |-> json_dump([html_content |-> "<html>",
                                        filename |-> "Motion.pdf"])]]

PdfCallDictArgs ==
    [name |-> "convert_html_to_pdf",
     arguments |-> [is_str |-> FALSE, value |-> [html_content |-> "<html>"]]]

PdfCallBadJson ==
    [name |-> "convert_html_to_pdf",
     arguments |-> [is_str |-> TRUE, text |-> [wellformed |-> FALSE]]]

OtherCall ==
    [name |-> "lookup", arguments |-> [is_str |-> FALSE, value |-> EmptyDict]]

NamelessCall == [arguments |-> [is_str |-> FALSE, value |-> EmptyDict]]

\* every event shape the stream loop distinguishes
AllEvents ==
    {TextDelta(<<"a">>), TextDelta(<<"b">>), TextDelta(<<>>),
     [type |-> "response.output_text.delta"],
     Created("resp_1"), Created(""),
     [type |-> "response.created"],
     [type |-> "response.created", response |-> [status |-> "queued"]],
     FunctionCallDone(PdfCall), FunctionCallDone(PdfCallDictArgs),
     FunctionCallDone(PdfCallBadJson), FunctionCallDone(OtherCall),
     FunctionCallDone(NamelessCall),
     [type |-> "response.function_call_arguments.done"],
     [type |-> "response.completed"],
     [sequence_number |-> "7"]}

AppStreams ==
    {<<Created("resp_1"), TextDelta(<<"a">>)>>,
     <<Created("resp_1"), FunctionCallDone(PdfCall)>>}

Citation(n, f) ==
    [type |-> "container_file_citation", container_id |-> "cntr_1",
     file_id |-> f, filename |-> n]

ResponseWith(anns) ==
    [id |-> "resp_1",
     output |-> <<[type |-> "reasoning"],
                  [type |-> "message",
                   content |-> <<[type |-> "output_text", annotations |-> anns]>>]>>]

ContainerFiles == {"cfile_1", "cfile_2", "cfile_3"}

AllRetrievals ==
    {[kind |-> "raise"],
     [kind |-> "ok", response |-> [id |-> "resp_1"]],
     [kind |-> "ok", response |-> ResponseWith(<<>>)],
     [kind |-> "ok", response |-> ResponseWith(<<[type |-> "file_citation"]>>)],
     [kind |-> "ok", response |-> ResponseWith(<<Citation("chart.png", "cfile_1")>>)],
     [kind |-> "ok",
      response |-> ResponseWith(<<Citation("a.docx", "cfile_1"),
                                  [type |-> "file_citation"],
                                  Citation("b.docx", "cfile_2"),
                                  Citation("c.docx", "cfile_3")>>)]}

AppRetrievals ==
    {[kind |-> "raise"],
     [kind |-> "ok", response |-> ResponseWith(<<Citation("chart.png", "cfile_1")>>)]}

AllPdfServices ==
    {[kind |-> "raise", msg |-> "timeout"],
     [kind |-> "json", body |-> [error |-> FALSE, url |-> "https://pdf.co/out.pdf"]],
     [kind |-> "json", body |-> [error |-> FALSE, url |-> ""]],
     [kind |-> "json", body |-> [error |-> TRUE, message |-> "bad html"]],
     [kind |-> "json", body |-> [error |-> TRUE]]}

AppPdfServices ==
    {[kind |-> "raise", msg |-> "timeout"],
     [kind |-> "json", body |-> [error |-> FALSE, url |-> "https://pdf.co/out.pdf"]]}

PdfDownloads == {[kind |-> "raise"], [kind |-> "ok", content |-> "%PDF"]}

AllGeminiOutcomes ==
    {[kind |-> "raise"],
     [kind |-> "text", text |-> <<"Debtor: Jane Doe">>],
     [kind |-> "text", text |-> <<" ", "Debtor: Jane Doe", "\n">>],
     [kind |-> "text", text |-> <<HANDLER_SENTINEL>>],
     [kind |-> "text", text |-> <<PROMPT_SENTINEL, "\n">>],
     [kind |-> "text", text |-> <<"\n">>]}

AppGeminiOutcomes ==
    {[kind |-> "raise"], [kind |-> "text", text |-> <<"Debtor: Jane Doe">>]}

UploadPool ==
    {[name |-> "schedule.pdf", data |-> "pdf-bytes"],
     [name |-> "notes.txt", data |-> "txt-bytes"]}

AppUploads == {<<>>, <<[name |-> "schedule.pdf", data |-> "pdf-bytes"]>>}

Prompts == {<<"draft the motion">>}

ParamPool ==
    {[motion_label |-> MOTION_OPTIONS.value_claim, juris |-> "", chapter |-> ""],
     [motion_label |-> MOTION_OPTIONS.avoid_lien, juris |-> "S.D. Fla.",
      chapter |-> "13"],
     [motion_label |-> SELECT_PLACEHOLDER, juris |-> "", chapter |-> "7"]}

\* The scenarios of a whole session ("app") and of one whole turn ("turn")
\* take the stream, the retrieval and the conversion from the short pools;
\* one orchestrator call ("orchestrator") tries every shape.
AppEnv == [level |-> "app", container |-> ContainerFiles]

TurnEnv == [level |-> "turn", container |-> ContainerFiles]

OrchEnvs ==
    {[level |-> "orchestrator", container |-> c] :
        c \in {ContainerFiles, ContainerFiles \ {"cfile_2"}}}

\* config2.json as the first script run can find it, with the stores that
\* exist at the backend then
InitialWorlds ==
    {[file |-> [exists |-> FALSE], stores |-> <<>>],
     [file |-> [exists |-> TRUE, text |-> json_dump(EmptyDict)], stores |-> <<>>],
     [file |-> [exists |-> TRUE, text |-> [wellformed |-> FALSE]], stores |-> <<>>],
     [file |-> save_cfg([vector_stores |-> [value_claim |-> 1]]),
      stores |-> <<"value_claim">>]}

\* ==================================================================== init
NoTurnInputs ==
    /\ user_prompt = <<>> /\ uploaded = <<>>
    /\ motion_label = SELECT_PLACEHOLDER /\ juris = "" /\ chapter = ""

NoTurnLocals ==
    /\ i = 0 /\ extract_blocks = <<>> /\ blobs_for_history = <<>>
    /\ motion_context = <<>> /\ conversation_history = <<>>
    /\ vector_store_ids = <<>>
    /\ events = <<>> /\ full_text = <<>> /\ holder = <<>>
    /\ response_id = None /\ function_calls = <<>>
    /\ fc_i = 0 /\ files_to_download = <<>>
    /\ answer = <<>> /\ new_files = <<>>

\* the application before the first interaction: the password prompt is
\* shown (or the first run died loading an unparseable config file)
Init ==
    /\ env = AppEnv
    /\ \E w \in InitialWorlds :
          /\ configFile = w.file
          /\ backend_stores = w.stores
          /\ cfg = IF load_cfg(w.file).raised THEN [vector_stores |-> EmptyDict]
                   ELSE load_cfg(w.file).value
    /\ password_correct = "absent" /\ password = "absent"
    /\ history = <<>> /\ schedule_uploaded = FALSE /\ uploader_key = 0
    /\ pc = "idle"
    /\ NoTurnInputs /\ NoTurnLocals
    /\ log = <<>> /\ hist0 = 0

\* ========================================================== script runs
\* line 38, executed first by every run of the script
Loaded == load_cfg(configFile)

RunStarts == ~Loaded.raised

Authenticated == password_correct = "True"

\* mutant: the pages are served whatever check_password returned
Idle_without_password == pc = "idle" /\ RunStarts

Idle == pc = "idle" /\ RunStarts /\ Authenticated

\* ------------------------------------- what the environment can do next
Rich == env.level = "orchestrator"

NextEvents ==
    IF Rich
    THEN IF Len(events) < MaxEvents THEN AllEvents ELSE {}
    ELSE {s[Len(events) + 1] :
            s \in {t \in AppStreams : /\ Len(t) > Len(events)
                                      /\ SubSeq(t, 1, Len(events)) = events}}

StreamMayEnd == Rich \/ events \in AppStreams

Retrievals == IF Rich THEN AllRetrievals ELSE AppRetrievals

PdfServices == IF Rich THEN AllPdfServices ELSE AppPdfServices

GeminiOutcomes ==
    IF env.level = "turn" THEN AllGeminiOutcomes ELSE AppGeminiOutcomes

Uploads ==
    IF env.level = "turn" THEN SeqsUpTo(UploadPool, MaxFiles) ELSE AppUploads

TurnBudget == IF env.level = "app" THEN MaxTurns ELSE 1

Passwords == {APP_PASSWORD, "guess"}

KnowledgeFiles == {<<>>, <<"local_rules.pdf">>}

\* a run of the script with an unparseable config file dies at line 38
RunDiesLoading ==
    /\ pc = "idle" /\ ~RunStarts
    /\ log' = <<[op |-> "load_cfg", raised |-> TRUE]>>
    /\ UNCHANGED <<env, regVars, sessVars, pc, inVars, extVars, callVars,
                   orchVars, retVars, hist0>>

\* check_password / password_entered
EnterPassword(pw) ==
    /\ pc = "idle" /\ RunStarts
    /\ password_correct # "True"
    /\ IF compare_digest(pw, APP_PASSWORD)
       THEN password_correct' = "True" /\ password' = "absent" /\ log' = <<>>
       ELSE /\ password_correct' = "False" /\ password' = pw
            /\ log' = <<[op |-> "st.error", about |-> "Password incorrect"]>>
    /\ cfg' = Loaded.value
    /\ UNCHANGED <<env, configFile, backend_stores, history,
                   schedule_uploaded, uploader_key, pc, inVars, extVars,
                   callVars, orchVars, retVars, hist0>>

\* mutant: resetting the workspace empties the conversation as well
ResetWorkspace_clears_history ==
    /\ Idle
    /\ configFile' = unlink_cfg
    /\ cfg' = [vector_stores |-> EmptyDict]
    /\ schedule_uploaded' = FALSE
    /\ history' = <<>>
    /\ log' = <<>> /\ hist0' = 0
    /\ UNCHANGED <<env, backend_stores, password_correct, password,
                   uploader_key, pc, inVars, extVars, callVars,
                   orchVars, retVars>>

\* the "Reset workspace" button; st.rerun() starts a fresh run
ResetWorkspace ==
    /\ Idle
    /\ configFile' = unlink_cfg
    /\ cfg' = [vector_stores |-> EmptyDict]
    /\ schedule_uploaded' = FALSE
    /\ log' = <<>> /\ hist0' = 0
    /\ UNCHANGED <<env, backend_stores, password_correct, password,
                   history, uploader_key, pc, inVars, extVars, callVars,
                   orchVars, retVars>>

\* mutant: clearing the chat removes the config file as well
ClearChat_unlinks_config ==
    /\ Idle
    /\ history' = <<>>
    /\ schedule_uploaded' = FALSE
    /\ configFile' = unlink_cfg
    /\ cfg' = Loaded.value
    /\ log' = <<>> /\ hist0' = 0
    /\ UNCHANGED <<env, backend_stores, password_correct,
                   password, uploader_key, pc, inVars, extVars, callVars,
                   orchVars, retVars>>

\* the "Clear chat" button (Chat page); st.rerun() starts a fresh run
ClearChat ==
    /\ Idle
    /\ history' = <<>>
    /\ schedule_uploaded' = FALSE
    /\ cfg' = Loaded.value
    /\ log' = <<>> /\ hist0' = 0
    /\ UNCHANGED <<env, configFile, backend_stores, password_correct,
                   password, uploader_key, pc, inVars, extVars, callVars,
                   orchVars, retVars>>

\* ---------------------------------------------------------------- admin
\* the loop of "Create 2 vector stores" after n successful creations:
\* every slug of MOTION_OPTIONS is assigned the id of a new store
create_stores(c, stores, n) ==
    LET made == {MOTION_SLUGS[j] : j \in 1..n}
        vs == c.vector_stores
    IN [cfg |-> [c EXCEPT !.vector_stores =
                    [k \in DOMAIN vs \cup made |->
                        IF k \in made
                        THEN Len(stores) + (CHOOSE j \in 1..n : MOTION_SLUGS[j] = k)
                        ELSE vs[k]]],
        stores |-> stores \o [j \in 1..n |-> MOTION_SLUGS[j]]]

\* the guard of the button: `len(cfg["vector_stores"]) < 2`
create_button_shown(c) == Cardinality(DOMAIN c.vector_stores) < Len(MOTION_SLUGS)

\* Admin: "Create 2 vector stores"; the creation number fail_at raises (0: none)
AdminCreateStores(fail_at) ==
    /\ Idle
    /\ create_button_shown(Loaded.value)
    /\ Len(backend_stores) + Len(MOTION_SLUGS) <= MaxStores
    /\ LET n == IF fail_at = 0 THEN Len(MOTION_SLUGS) ELSE fail_at - 1
           r == create_stores(Loaded.value, backend_stores, n)
       IN /\ cfg' = r.cfg
          /\ backend_stores' = r.stores
          /\ configFile' = IF fail_at = 0 THEN save_cfg(r.cfg) ELSE configFile
          /\ log' = [j \in 1..n |-> [op |-> "vector_stores.create",
                                     slug |-> MOTION_SLUGS[j], raised |-> FALSE]]
                    \o (IF fail_at = 0 THEN <<[op |-> "save_cfg"]>>
                        ELSE <<[op |-> "vector_stores.create",
                                slug |-> MOTION_SLUGS[fail_at], raised |-> TRUE]>>)
    /\ hist0' = 0
    /\ UNCHANGED <<env, sessVars, pc, inVars, extVars, callVars,
                   orchVars, retVars>>

\* mutant: the new entry is stored in a fresh registry
get_or_create_fresh_registry(c, stores, slug) ==
    IF slug \notin DOMAIN c.vector_stores
    THEN [created |-> TRUE,
          cfg |-> [c EXCEPT !.vector_stores = (slug :> (Len(stores) + 1))],
          stores |-> Append(stores, slug)]
    ELSE [created |-> FALSE, cfg |-> c, stores |-> stores]

\* the create-if-absent step of the upload form
get_or_create(c, stores, slug) ==
    IF slug \notin DOMAIN c.vector_stores
    THEN [created |-> TRUE,
          cfg |-> [c EXCEPT !.vector_stores = setitem(@, slug, Len(stores) + 1)],
          stores |-> Append(stores, slug)]
    ELSE [created |-> FALSE, cfg |-> c, stores |-> stores]

index_calls(store, files_) ==
    [j \in 1..Len(files_) |-> [op |-> "vector_stores.files.create",
                               store |-> store, file |-> files_[j]]]

\* Admin: the upload form, submitted
AdminUpload(slug, jur, files_, create_ok) ==
    /\ Idle
    /\ DOMAIN Loaded.value.vector_stores # {}
    /\ IF jur = "" \/ files_ = <<>>
       THEN /\ log' = <<[op |-> "st.error", about |-> "Provide jurisdiction"]>>
            /\ cfg' = Loaded.value
            /\ UNCHANGED <<configFile, backend_stores>>
       ELSE LET r == get_or_create(Loaded.value, backend_stores, slug) IN
            IF r.created
            THEN /\ Len(backend_stores) < MaxStores
                 /\ IF create_ok
                    THEN /\ cfg' = r.cfg
                         /\ backend_stores' = r.stores
                         /\ configFile' = save_cfg(r.cfg)
                         /\ log' = <<[op |-> "vector_stores.create", slug |-> slug,
                                      raised |-> FALSE], [op |-> "save_cfg"]>>
                                   \o index_calls(r.cfg.vector_stores[slug], files_)
                    ELSE /\ cfg' = Loaded.value
                         /\ log' = <<[op |-> "vector_stores.create", slug |-> slug,
                                      raised |-> TRUE]>>
                         /\ UNCHANGED <<configFile, backend_stores>>
            ELSE /\ cfg' = Loaded.value
                 /\ log' = index_calls(Loaded.value.vector_stores[slug], files_)
                 /\ UNCHANGED <<configFile, backend_stores>>
    /\ hist0' = 0
    /\ UNCHANGED <<env, sessVars, pc, inVars, extVars, callVars, orchVars,
                   retVars>>

\* ------------------------------------------------------------ chat turn
ResetTurnInputs ==
    /\ user_prompt' = <<>> /\ uploaded' = <<>>
    /\ motion_label' = SELECT_PLACEHOLDER /\ juris' = "" /\ chapter' = ""

ResetTurnLocals ==
    /\ i' = 0 /\ extract_blocks' = <<>> /\ blobs_for_history' = <<>>
    /\ motion_context' = <<>> /\ conversation_history' = <<>>
    /\ vector_store_ids' = <<>>
    /\ events' = <<>> /\ full_text' = <<>> /\ holder' = <<>>
    /\ response_id' = None /\ function_calls' = <<>>
    /\ fc_i' = 0 /\ files_to_download' = <<>>
    /\ answer' = <<>> /\ new_files' = <<>>

\* mutant: only the selection of a motion type is tested
chat_enabled_selected_only(label, c) == slug_of(label) # None

\* the gating of lines 855-861
chat_enabled(label, c) ==
    /\ slug_of(label) # None
    /\ slug_of(label) \in DOMAIN c.vector_stores

\* what the motion type selectbox offers
MotionLabels ==
    {SELECT_PLACEHOLDER} \cup {MOTION_OPTIONS[k] : k \in DOMAIN MOTION_OPTIONS}

\* Chat page: the run stops at the gating (st.stop at line 857 or 861)
ChatGated(label) ==
    /\ Idle
    /\ ~chat_enabled(label, Loaded.value)
    /\ cfg' = Loaded.value
    /\ log' = <<IF slug_of(label) = None
                THEN [op |-> "st.sidebar.error", motion_type |-> label,
                      about |-> "Please select a motion type to enable chat."]
                ELSE [op |-> "st.error", motion_type |-> label,
                      about |-> "Vector store not found for this motion type. Please create it in Admin."]>>
    /\ hist0' = 0
    /\ UNCHANGED <<env, configFile, backend_stores, sessVars, pc, inVars,
                   extVars, callVars, orchVars, retVars>>

\* Chat page: a prompt is submitted and passes the gating
Submit(prompt, params, files) ==
    /\ Idle
    /\ uploader_key < TurnBudget
    /\ chat_enabled(params.motion_label, Loaded.value)
    /\ cfg' = Loaded.value
    /\ user_prompt' = prompt /\ uploaded' = files
    /\ motion_label' = params.motion_label
    /\ juris' = params.juris /\ chapter' = params.chapter
    /\ i' = 1 /\ extract_blocks' = <<>> /\ blobs_for_history' = <<>>
    /\ log' = <<>> /\ hist0' = Len(history)
    /\ pc' = "extract"
    /\ UNCHANGED <<env, configFile, backend_stores, sessVars,
                   callVars, orchVars, retVars>>

\* one iteration of `for i, uf in enumerate(uploaded, 1)`; an exception of
\* gem_extract is not caught: the script run ends there
ExtractFile(out) ==
    /\ pc = "extract" /\ i <= Len(uploaded)
    /\ LET uf == uploaded[i]
           r == gem_extract(out)
       IN IF r.raised
          THEN /\ log' = Append(log, [op |-> "gem_extract", file |-> uf.name,
                                      raised |-> TRUE])
               /\ pc' = "idle"
               /\ ResetTurnInputs /\ ResetTurnLocals
          ELSE /\ log' = Append(log, [op |-> "gem_extract", file |-> uf.name,
                                      raised |-> FALSE, text |-> r.value])
               /\ extract_blocks' =
                     IF keep_block(r.value)
                     THEN Append(extract_blocks, extract_block(uf.name, r.value))
                     ELSE extract_blocks
               /\ blobs_for_history' = Append(blobs_for_history, <<uf.name, uf.data>>)
               /\ i' = i + 1
               /\ UNCHANGED <<pc, inVars, callVars, orchVars, retVars>>
    /\ UNCHANGED <<env, regVars, sessVars, hist0>>

\* mutant: the user turn is recorded when the last file is still to be read
RecordUserTurn_before_last_file ==
    /\ pc = "extract" /\ i >= Len(uploaded)
    /\ schedule_uploaded' =
          IF uploaded # <<>> /\ any_pdf(uploaded) THEN TRUE ELSE schedule_uploaded
    /\ history' = Append(history, [role |-> "user", content |-> user_prompt,
                                   files |-> blobs_for_history])
    /\ motion_context' =
          build_motion_context(motion_label, juris, chapter, extract_blocks)
    /\ conversation_history' = conversation_of(history')
    /\ vector_store_ids' = <<cfg.vector_stores[slug_of(motion_label)]>>
    /\ log' = Append(log, [op |-> "history.append", role |-> "user"])
    /\ pc' = "dispatch"
    /\ UNCHANGED <<env, regVars, password_correct, password, uploader_key,
                   inVars, extVars, orchVars, retVars, hist0>>

\* lines 908-938: the user turn is stored, the context and the conversation
\* are built
RecordUserTurn ==
    /\ pc = "extract" /\ i > Len(uploaded)
    /\ schedule_uploaded' =
          IF uploaded # <<>> /\ any_pdf(uploaded) THEN TRUE ELSE schedule_uploaded
    /\ history' = Append(history, [role |-> "user", content |-> user_prompt,
                                   files |-> blobs_for_history])
    /\ motion_context' =
          build_motion_context(motion_label, juris, chapter, extract_blocks)
    /\ conversation_history' = conversation_of(history')
    /\ vector_store_ids' = <<cfg.vector_stores[slug_of(motion_label)]>>
    /\ log' = Append(log, [op |-> "history.append", role |-> "user"])
    /\ pc' = "dispatch"
    /\ UNCHANGED <<env, regVars, password_correct, password, uploader_key,
                   inVars, extVars, orchVars, retVars, hist0>>

\* mutant: the handler returns what was accumulated before the failure
failure_result_partial == [answer |-> full_text, files |-> files_to_download]

\* `return "", []` of the handler `except Exception`
failure_result == [answer |-> <<>>, files |-> <<>>]

\* mutant: the exception is not caught by the call and ends the script run
Fails_propagates(made) ==
    /\ answer' = <<>> /\ new_files' = <<>>
    /\ log' = log \o made
    /\ pc' = "idle"

\* the handler `except Exception` of lines 608-612, after the calls `made`
Fails(made) ==
    /\ answer' = failure_result.answer /\ new_files' = failure_result.files
    /\ log' = log \o made
                 \o <<[op |-> "st.error", about |-> "Error creating response"],
                      [op |-> "st.error", about |-> "traceback"]>>
    /\ pc' = "record"

\* lines 513-546: the request is composed and dispatched
Dispatch(ok) ==
    /\ pc = "dispatch"
    /\ LET call == [op |-> "responses.create",
                    input |-> input_items_of(conversation_history, motion_context),
                    vector_store_ids |-> vector_store_ids,
                    raised |-> ~ok]
       IN IF ok
          THEN /\ full_text' = <<>> /\ holder' = <<>> /\ response_id' = None
               /\ function_calls' = <<>> /\ events' = <<>>
               /\ log' = Append(log, call)
               /\ pc' = "stream"
               /\ UNCHANGED <<fc_i, files_to_download, retVars>>
          ELSE /\ Fails(<<call>>)
               /\ UNCHANGED orchVars
    /\ UNCHANGED <<env, regVars, sessVars, inVars, extVars, callVars, hist0>>

\* the stream delivers one more event
StreamEvent(event) ==
    /\ pc = "stream"
    /\ LET st == stream_event([full_text |-> full_text, holder |-> holder,
                               response_id |-> response_id,
                               function_calls |-> function_calls], event)
       IN /\ full_text' = st.full_text /\ holder' = st.holder
          /\ response_id' = st.response_id
          /\ function_calls' = st.function_calls
    /\ events' = Append(events, event)
    /\ UNCHANGED <<env, regVars, sessVars, pc, inVars, extVars, callVars,
                   fc_i, files_to_download, retVars, log, hist0>>

\* iterating the stream raises (the connection is lost)
StreamRaises ==
    /\ pc = "stream"
    /\ Fails(<<[op |-> "stream", raised |-> TRUE]>>)
    /\ UNCHANGED <<env, regVars, sessVars, inVars, extVars, callVars, orchVars,
                   hist0>>

\* the stream is exhausted
StreamEnds ==
    /\ pc = "stream" /\ StreamMayEnd
    /\ files_to_download' = <<>> /\ fc_i' = 1
    /\ events' = <<>>
    /\ log' = Append(log, [op |-> "stream", raised |-> FALSE, text |-> full_text])
    /\ pc' = "functions"
    /\ UNCHANGED <<env, regVars, sessVars, inVars, extVars, callVars,
                   full_text, holder, response_id, function_calls, retVars, hist0>>

\* the calls one iteration of the function-call loop made before it ended
\* or raised; r is what run_function_call says of the iteration
call_entries(r) ==
    [j \in 1..Len(r.called) |->
        IF r.called[j] = "convert_html_to_pdf"
        THEN [op |-> "convert_html_to_pdf", raised |-> FALSE,
              function_args |-> r.args, result |-> r.result]
        ELSE [op |-> r.called[j], raised |-> FALSE]]

\* one iteration of `for fc in function_calls`
FunctionCall(svc, dl) ==
    /\ pc = "functions" /\ fc_i <= Len(function_calls)
    /\ LET r == run_function_call([full_text |-> full_text, holder |-> holder,
                                   files_to_download |-> files_to_download],
                                  function_calls[fc_i], svc, dl)
       IN IF r.raised
          THEN /\ Fails(call_entries(r)
                        \o <<[op |-> r.at, raised |-> TRUE]>>)
               /\ UNCHANGED orchVars
          ELSE /\ full_text' = r.st.full_text /\ holder' = r.st.holder
               /\ files_to_download' = r.st.files_to_download
               /\ fc_i' = fc_i + 1
               /\ log' = log \o call_entries(r)
               /\ UNCHANGED <<pc, events, response_id, function_calls, retVars>>
    /\ UNCHANGED <<env, regVars, sessVars, inVars, extVars, callVars, hist0>>

\* lines 588-606: the follow-up retrieval, the container downloads, return
Retrieve(ret) ==
    /\ pc = "functions" /\ fc_i > Len(function_calls)
    /\ LET r == retrieve_files(response_id, files_to_download, ret, env.container)
       IN /\ answer' = full_text
          /\ new_files' = r.files
          /\ log' = log
                \o (IF r.called
                    THEN <<[op |-> "responses.retrieve", id |-> response_id,
                            raised |-> ret.kind = "raise", result |-> ret]>>
                    ELSE <<>>)
                \o (IF r.warned
                    THEN <<[op |-> "st.warning",
                            about |-> "Could not retrieve files from response"]>>
                    ELSE <<>>)
    /\ pc' = "record"
    /\ UNCHANGED <<env, regVars, sessVars, inVars, extVars, callVars, orchVars,
                   hist0>>

\* mutant: the uploader key is not renewed and the run goes on with the
\* files and the extraction results of the turn
RecordAssistantTurn_keeps_uploader ==
    /\ pc = "record"
    /\ history' = Append(history, [role |-> "assistant", content |-> answer,
                                   files |-> new_files])
    /\ log' = <<>> /\ hist0' = 0
    /\ pc' = "idle"
    /\ UNCHANGED <<env, regVars, password_correct, password, schedule_uploaded,
                   uploader_key, inVars, extVars, callVars, orchVars, retVars>>

\* mutant: the assistant turn is stored in place of the turn before it
RecordAssistantTurn_replaces_last ==
    /\ pc = "record"
    /\ history' = [history EXCEPT ![Len(history)] =
                      [role |-> "assistant", content |-> answer,
                       files |-> new_files]]
    /\ uploader_key' = uploader_key + 1
    /\ log' = <<>> /\ hist0' = 0
    /\ pc' = "idle"
    /\ ResetTurnInputs /\ ResetTurnLocals
    /\ UNCHANGED <<env, regVars, password_correct, password, schedule_uploaded>>

\* lines 951-957: the assistant turn is stored, the uploader reset and the
\* script re-run
RecordAssistantTurn ==
    /\ pc = "record"
    /\ history' = Append(history, [role |-> "assistant", content |-> answer,
                                   files |-> new_files])
    /\ uploader_key' = uploader_key + 1
    /\ log' = <<>> /\ hist0' = 0
    /\ pc' = "idle"
    /\ ResetTurnInputs /\ ResetTurnLocals
    /\ UNCHANGED <<env, regVars, password_correct, password, schedule_uploaded>>

\* ==================================================== specifications
TurnSteps ==
    \/ \E out \in GeminiOutcomes : ExtractFile(out)
    \/ RecordUserTurn
    \/ \E ok \in BOOLEAN : Dispatch(ok)
    \/ \E event \in NextEvents : StreamEvent(event)
    \/ StreamRaises
    \/ StreamEnds
    \/ \E svc \in PdfServices, dl \in PdfDownloads : FunctionCall(svc, dl)
    \/ \E ret \in Retrievals : Retrieve(ret)
    \/ RecordAssistantTurn

Next ==
    \/ RunDiesLoading
    \/ \E pw \in Passwords : EnterPassword(pw)
    \/ ResetWorkspace
    \/ ClearChat
    \/ \E fail_at \in 0..Len(MOTION_SLUGS) : AdminCreateStores(fail_at)
    \/ \E slug \in DOMAIN MOTION_OPTIONS, jur \in {"", "S.D. Fla."},
          files_ \in KnowledgeFiles, create_ok \in BOOLEAN :
          AdminUpload(slug, jur, files_, create_ok)
    \/ \E label \in MotionLabels : ChatGated(label)
    \/ \E prompt \in Prompts, params \in ParamPool, files \in Uploads :
          Submit(prompt, params, files)
    \/ TurnSteps

\* the whole application, over sessions of short scenarios
Spec == Init /\ [][Next]_vars

\* One chat turn of an authenticated session with both stores registered,
\* over every upload and every extraction outcome.
InitTurn ==
    /\ env = TurnEnv
    /\ configFile = save_cfg([vector_stores |-> [value_claim |-> 1, avoid_lien |-> 2]])
    /\ backend_stores = MOTION_SLUGS
    /\ cfg = load_cfg(configFile).value
    /\ password_correct = "True" /\ password = "absent"
    /\ history = <<>> /\ schedule_uploaded = FALSE /\ uploader_key = 0
    /\ pc = "idle"
    /\ NoTurnInputs /\ NoTurnLocals
    /\ log = <<>> /\ hist0 = 0

NextTurn ==
    \/ \E prompt \in Prompts, params \in ParamPool, files \in Uploads :
          Submit(prompt, params, files)
    \/ TurnSteps

SpecTurn == InitTurn /\ [][NextTurn]_vars

\* The chat turn with the progress of the script run: a statement that can
\* be executed is executed (every backend call returns or raises, the stream
\* is finite).  Nothing obliges the user to submit.
SpecTurnLive == InitTurn /\ [][NextTurn]_vars /\ WF_vars(TurnSteps)

\* One call of stream_response_with_file_search, over every event shape,
\* every retrieval and every conversion outcome.
InitOrch ==
    /\ env \in OrchEnvs
    /\ configFile = save_cfg([vector_stores |-> [value_claim |-> 1]])
    /\ backend_stores = <<"value_claim">>
    /\ cfg = load_cfg(configFile).value
    /\ password_correct = "True" /\ password = "absent"
    /\ history = <<[role |-> "user", content |-> <<"draft the motion">>,
                    files |-> <<>>]>>
    /\ schedule_uploaded = FALSE /\ uploader_key = 0
    /\ pc = "dispatch"
    /\ user_prompt = <<"draft the motion">> /\ uploaded = <<>>
    /\ motion_label = MOTION_OPTIONS.value_claim /\ juris = "" /\ chapter = ""
    /\ i = 1 /\ extract_blocks = <<>> /\ blobs_for_history = <<>>
    /\ motion_context = build_motion_context(motion_label, juris, chapter, <<>>)
    /\ conversation_history = conversation_of(history)
    /\ vector_store_ids = <<1>>
    /\ events = <<>> /\ full_text = <<>> /\ holder = <<>>
    /\ response_id = None /\ function_calls = <<>>
    /\ fc_i = 0 /\ files_to_download = <<>>
    /\ answer = <<>> /\ new_files = <<>>
    /\ log = <<[op |-> "history.append", role |-> "user"]>> /\ hist0 = 0

NextOrch ==
    \/ \E ok \in BOOLEAN : Dispatch(ok)
    \/ \E event \in NextEvents : StreamEvent(event)
    \/ StreamRaises
    \/ StreamEnds
    \/ \E svc \in PdfServices, dl \in PdfDownloads : FunctionCall(svc, dl)
    \/ \E ret \in Retrievals : Retrieve(ret)

SpecOrch == InitOrch /\ [][NextOrch]_vars

\* ================================================================ claims
\* what the log of the running script run says
ExtractionRaised ==
    \E j \in 1..Len(log) : log[j].op = "gem_extract" /\ log[j].raised

DispatchFailed ==
    \E j \in 1..Len(log) :
        log[j].op \in {"responses.create", "stream"} /\ log[j].raised

StreamDone == \E j \in 1..Len(log) : log[j].op = "stream" /\ ~log[j].raised

StreamedText ==
    log[CHOOSE j \in 1..Len(log) : log[j].op = "stream" /\ ~log[j].raised].text

Extractions == SelectSeq(log, LAMBDA e : e.op = "gem_extract" /\ ~e.raised)

ContextBuilt == pc \in {"dispatch", "stream", "functions", "record"}

Sentinels == {PROMPT_SENTINEL, HANDLER_SENTINEL}

IsSentinelText(text) == \E sentinel \in Sentinels : text = <<sentinel>>

\* C1: once the stream has been consumed, whatever fails afterwards, the
\* call returns the text the stream accumulated (status lines may follow it).
C1_PostStreamFailureKeepsText ==
    (pc = "record" /\ StreamDone) => IsPrefix(StreamedText, answer)

\* C2: when the extraction of a file raises, the loop goes on with the next
\* file, no block is added for the failed one and the turn is not ended.
C2_ExtractionFailureSkipsFile ==
    [][(pc = "extract" /\ ExtractionRaised' /\ ~ExtractionRaised)
          => (pc' = "extract" /\ i' = i + 1 /\ extract_blocks' = extract_blocks)]_vars

\* C3: no sentinel text reaches the motion context, and when every
\* extraction result of the turn is a sentinel the context is the three
\* parameter lines alone.
C3_SentinelNeverInContext ==
    ContextBuilt =>
        /\ \A k \in 1..Len(motion_context) : motion_context[k] \notin Sentinels
        /\ (\A k \in 1..Len(Extractions) : IsSentinelText(Extractions[k].text))
              => ~\E k \in 1..Len(motion_context) :
                     motion_context[k] = "EXTRACTED_FROM_UPLOAD File name ("

\* C4: every container file the finalized response references and the
\* container serves is among the returned artifacts, whatever happens to
\* the other downloads.
C4_DownloadsFaultIsolated ==
    pc = "record" =>
        \A j \in 1..Len(log) :
            (log[j].op = "responses.retrieve" /\ ~log[j].raised) =>
                \A a \in Range(extract_annotations_from_response(
                                   log[j].result.response)) :
                    a.file_id \in env.container =>
                        \E f \in Range(new_files) : f[1] = a.filename

\* C5: when the primary dispatch (the request, or iterating its stream)
\* raises, the call returns an empty answer and no artifacts with an error
\* surfaced, after the user turn was appended, and the handler then appends
\* an assistant turn with that empty content and no files.
C5_DispatchFailureRecorded ==
    [][/\ (pc' = "record" /\ DispatchFailed') =>
             /\ answer' = <<>> /\ new_files' = <<>>
             /\ \E j \in 1..Len(log') : log'[j].op = "st.error"
             /\ Len(history') = hist0' + 1
             /\ history'[Len(history')] =
                    [role |-> "user", content |-> user_prompt',
                     files |-> blobs_for_history']
       /\ (pc = "record" /\ DispatchFailed) =>
             history' = Append(history, [role |-> "assistant",
                                         content |-> <<>>, files |-> <<>>])]_vars

C5_Witness ==
    /\ pc = "record" /\ DispatchFailed
    /\ \E j \in 1..Len(log) : log[j].op = "stream" /\ log[j].raised
    /\ answer = <<>> /\ Len(history) = hist0 + 1

\* the persisted registry
Registry == IF Loaded.raised THEN EmptyDict ELSE Loaded.value.vector_stores

\* C6: no operation changes the store id of a category that has an entry.
C6_ProvisioningKeepsExistingIds ==
    [][\A slug \in DOMAIN Registry :
          slug \in DOMAIN Registry' => Registry'[slug] = Registry[slug]]_vars

Kept == SelectSeq(Extractions,
                  LAMBDA e : e.text # <<>> /\ ~IsSentinelText(e.text))

ExpectedBlocks ==
    [k \in 1..Len(Kept) |->
        <<"EXTRACTED_FROM_UPLOAD File name (", Kept[k].file, "):\n">>
            \o Kept[k].text]

\* C7: the extraction section holds exactly one block per file whose text is
\* non-empty and not a sentinel, in upload order, and no two blocks carry the
\* same file name.
C7_OneBlockPerFileUniquelyLabeled ==
    ContextBuilt =>
        /\ extract_blocks = ExpectedBlocks
        /\ \A a, b \in 1..Len(Kept) : a # b => Kept[a].file # Kept[b].file

ThreeLines ==
    <<"Motion type: ", motion_label, "\n",
      "Jurisdiction: ", IF juris = "" THEN "(unspecified)" ELSE juris, "\n",
      "Chapter: ", IF chapter = "" THEN "(unspecified)" ELSE chapter>>

\* C8: in a turn submitted without files gem_extract is never called and the
\* motion context is the three labeled parameter lines and nothing else.
C8_NoUploadsNoExtraction ==
    (pc # "idle" /\ uploaded = <<>>) =>
        /\ \A j \in 1..Len(log) : log[j].op # "gem_extract"
        /\ ContextBuilt => motion_context = ThreeLines

C8_Witness ==
    /\ env.level = "turn" /\ pc = "stream" /\ uploaded = <<>>
    /\ motion_context = ThreeLines /\ juris = ""

\* the non-empty deltas of the text-delta events, in arrival order
RECURSIVE ConcatDeltas(_)
ConcatDeltas(evs) ==
    IF evs = <<>> THEN <<>>
    ELSE (IF /\ hasattr(Head(evs), "type")
             /\ Head(evs).type = "response.output_text.delta"
             /\ hasattr(Head(evs), "delta")
          THEN Head(evs).delta ELSE <<>>) \o ConcatDeltas(Tail(evs))

\* C9: while the stream is consumed, the accumulated text is the
\* concatenation of the deltas delivered so far, in arrival order, and the
\* displayed text is that accumulator.
C9_AccumulatorIsConcatenation ==
    pc = "stream" => (full_text = ConcatDeltas(events) /\ holder = full_text)

C9_Witness ==
    /\ pc = "stream" /\ Len(events) = 3
    /\ events[2] = TextDelta(<<>>)
    /\ full_text = <<"b", "a">> /\ holder = <<"b", "a">>

\* an event the loop has no branch for, or whose payload field is missing
Ignored(e) ==
    \/ ~hasattr(e, "type")
    \/ e.type \notin {"response.output_text.delta", "response.created",
                      "response.function_call_arguments.done"}
    \/ e.type = "response.output_text.delta" /\ ~hasattr(e, "delta")
    \/ e.type = "response.created"
          /\ ~(hasattr(e, "response") /\ hasattr(e.response, "id"))
    \/ e.type = "response.function_call_arguments.done"
          /\ ~hasattr(e, "function_call")

\* C10: an ignored event changes neither the accumulated text, nor the
\* response identifier, nor the observed function calls, raises nothing, and
\* the loop goes on.
C10_IgnoredEventsChangeNothing ==
    [][(pc = "stream" /\ Len(events') = Len(events) + 1
           /\ Ignored(events'[Len(events')]))
          => /\ full_text' = full_text /\ holder' = holder
             /\ response_id' = response_id
             /\ function_calls' = function_calls
             /\ log' = log /\ pc' = "stream"]_vars

C10_Witness ==
    /\ pc = "stream" /\ Len(events) = 3
    /\ events[1] = Created("resp_1") /\ Ignored(events[2])
    /\ events[3] = TextDelta(<<"a">>)
    /\ response_id = "resp_1" /\ full_text = <<"a">>

\* the entries of a log that record a call of op
CallsIn(l, op) == SelectSeq(l, LAMBDA e : e.op = op)

\* a step that ends the running chat turn (the script run is over)
TurnEnds == pc # "idle" /\ pc' = "idle"

\* C11: a submitted prompt that passed the gating causes exactly one drafting
\* dispatch (one call of the orchestrator, one responses.create): never a
\* second one while the turn runs, and one has been made when the turn ends.
C11_ExactlyOneDispatchPerTurn ==
    [][/\ Len(CallsIn(log', "responses.create")) <= 1
       /\ TurnEnds => Len(CallsIn(log, "responses.create")) = 1]_vars

\* position of the entry that records the end of the stream
StreamDoneAt == CHOOSE j \in 1..Len(log) : log[j].op = "stream" /\ ~log[j].raised

\* C12: when the stream ran to completion, the call has issued exactly one
\* responses.retrieve, after the last stream event, for the identifier of the
\* response of this turn.
C12_ExactlyOneRetrieveAfterStream ==
    (pc = "record" /\ StreamDone) =>
        /\ Len(CallsIn(log, "responses.retrieve")) = 1
        /\ \A j \in 1..Len(log) :
              log[j].op = "responses.retrieve" =>
                  (j > StreamDoneAt /\ log[j].id = response_id)

RetrieveRaised ==
    \E j \in 1..Len(log) : log[j].op = "responses.retrieve" /\ log[j].raised

\* C13: when the follow-up responses.retrieve raises, the exception is not
\* propagated: the call returns the text accumulated from the stream (with
\* the status lines of the conversions) and the artifacts resolved before
\* the retrieval, a warning is recorded and no error.
C13_RetrieveFailureIsNonFatal ==
    (pc = "record" /\ RetrieveRaised) =>
        /\ answer = full_text /\ IsPrefix(StreamedText, answer)
        /\ new_files = files_to_download
        /\ log[Len(log)].op = "st.warning"
        /\ CallsIn(log, "st.error") = <<>>

C13_Witness ==
    /\ pc = "record" /\ RetrieveRaised
    /\ StreamedText = <<"a">>
    /\ answer = <<"a">> \o pdf_generated("Motion.pdf")
    /\ new_files = << <<"Motion.pdf", "%PDF">> >>

IsPdfCall(fc) == hasattr(fc, "name") /\ fc.name = "convert_html_to_pdf"

\* the arguments of a function call as a dict (an empty one if they do not
\* parse)
ArgsOf(fc) ==
    IF ~fc.arguments.is_str THEN fc.arguments.value
    ELSE IF json_load(fc.arguments.text).raised THEN EmptyDict
    ELSE json_load(fc.arguments.text).value

\* C14: after the stream, every observed convert_html_to_pdf call gets its
\* handler executed once and the loop goes on; a success adds one artifact
\* named by the result's filename and a 'PDF Generated' line, a failure adds
\* no artifact and a failure line with the error message; the text and the
\* artifacts so built are what the call returns.
C14_EveryPdfCallHandledOnce ==
    [][/\ (/\ pc = "functions" /\ fc_i <= Len(function_calls)
           /\ IsPdfCall(function_calls[fc_i]))
          => /\ pc' = "functions" /\ fc_i' = fc_i + 1
             /\ Len(CallsIn(log', "convert_html_to_pdf"))
                   = Len(CallsIn(log, "convert_html_to_pdf")) + 1
             /\ \E svc \in PdfServices :
                   LET result == handle_function_call(
                                     "convert_html_to_pdf",
                                     ArgsOf(function_calls[fc_i]), svc)
                   IN IF result.success
                      THEN /\ files_to_download' =
                                 Append(files_to_download,
                                        <<result.filename, "%PDF">>)
                           /\ full_text' =
                                 full_text \o pdf_generated(result.filename)
                      ELSE /\ files_to_download' = files_to_download
                           /\ full_text' = full_text \o pdf_failed(result.error)
       /\ (pc = "functions" /\ pc' = "record" /\ fc_i > Len(function_calls))
          => /\ answer' = full_text
             /\ IsPrefix(files_to_download, new_files')]_vars

\* C15: the history is append-only between resets: 'Clear chat' empties it,
\* every other operation keeps each stored turn (role, content, files) at
\* its index and can only append at the end.
C15_HistoryAppendOnly ==
    [][IF ClearChat THEN history' = <<>> ELSE IsPrefix(history, history')]_vars

C15_Witness ==
    /\ pc = "dispatch" /\ Len(history) = 3
    /\ history[1].role = "user" /\ history[2].role = "assistant"
    /\ history[3] = [role |-> "user", content |-> user_prompt,
                     files |-> blobs_for_history]
    /\ blobs_for_history # <<>>

\* roles alternate user, assistant, starting with user
Alternates(hist) ==
    \A k \in 1..Len(hist) :
        hist[k].role = IF k % 2 = 1 THEN "user" ELSE "assistant"

\* C16: between turn submissions the history has even length and its roles
\* alternate user, assistant, starting with user, whatever failed in the
\* turns before.
C16_TurnIndexingConsistent ==
    pc = "idle" => (Len(history) % 2 = 0 /\ Alternates(history))

\* a dispatch failed in the first turn, an extraction in a later one
C16_Witness ==
    /\ pc = "idle" /\ Len(history) = 2
    /\ history[2] = [role |-> "assistant", content |-> <<>>, files |-> <<>>]
    /\ ExtractionRaised

\* C17: the input of a drafting request is the system instructions, the
\* motion context of the turn, then role and content of every turn of the
\* history in insertion order, the last one being the user turn just
\* submitted; turns with empty content are replayed like the others.
C17_RequestReplaysWholeHistory ==
    \A j \in 1..Len(log) :
        log[j].op = "responses.create" =>
            LET input == log[j].input IN
            /\ Len(input) = Len(history) + 2
            /\ input[1] = [role |-> "system", content |-> SYSTEM_INSTRUCTIONS]
            /\ input[2] = [role |-> "system", content |-> motion_context]
            /\ IsPrefix(ThreeLines, motion_context)
            /\ \A k \in 1..Len(history) :
                  input[k + 2] = [role |-> history[k].role,
                                  content |-> history[k].content]
            /\ input[Len(input)] = [role |-> "user", content |-> user_prompt]

\* the request of a second turn, after a first turn whose dispatch failed
C17_Witness ==
    /\ pc = "stream" /\ Len(history) = 3
    /\ history[2] = [role |-> "assistant", content |-> <<>>, files |-> <<>>]
    /\ Len(CallsIn(log, "responses.create")) = 1
    /\ Len(CallsIn(log, "responses.create")[1].input) = 5

\* load_cfg() after save_cfg(c) returns c
RoundTrips(c) == load_cfg(save_cfg(c)) = [raised |-> FALSE, value |-> c]

\* the step is a submission of the upload form that provisioned slug
UploadFormProvisioned(slug) ==
    /\ log' # log /\ Len(log') >= 2
    /\ log'[1] = [op |-> "vector_stores.create", slug |-> slug, raised |-> FALSE]
    /\ log'[2] = [op |-> "save_cfg"]

\* C18: a configuration written by save_cfg and read back by load_cfg is
\* the same mapping, and an upload-form submission that adds one category's
\* store and saves leaves the persisted entry of every other category as it
\* was.
C18_ConfigRoundTripKeepsOthers ==
    [][/\ hasattr(cfg', "vector_stores") => RoundTrips(cfg')
       /\ (log' # log /\ CallsIn(log', "save_cfg") # <<>>)
             => load_cfg(configFile') = [raised |-> FALSE, value |-> cfg']
       /\ \A slug \in DOMAIN MOTION_OPTIONS :
             UploadFormProvisioned(slug) =>
                 /\ slug \in DOMAIN Registry'
                 /\ \A k \in DOMAIN Registry \ {slug} :
                       k \in DOMAIN Registry' /\ Registry'[k] = Registry[k]]_vars

\* the upload form has just provisioned avoid_lien next to value_claim
C18_Witness ==
    /\ Len(log) >= 2
    /\ log[1] = [op |-> "vector_stores.create", slug |-> "avoid_lien",
                 raised |-> FALSE]
    /\ log[2] = [op |-> "save_cfg"]
    /\ DOMAIN Registry = {"value_claim", "avoid_lien"}
    /\ Registry["value_claim"] = 1 /\ Registry["avoid_lien"] = 2
    /\ Loaded.value = cfg

\* config2.json is missing, or is a JSON object without the vector_stores key
NoRegistryOnDisk ==
    \/ ~configFile.exists
    \/ /\ configFile.text.wellformed
       /\ \A m \in configFile.text.members : m[1] # "vector_stores"

NOT_FOUND_MESSAGE ==
    "Vector store not found for this motion type. Please create it in Admin."

\* the step is a run of the Chat page that showed the message for label
ShowsNotFound(label) ==
    /\ log' # log
    /\ log' = <<[op |-> "st.error", motion_type |-> label,
                 about |-> NOT_FOUND_MESSAGE]>>

\* C19: a missing config file or a missing vector_stores key loads as an
\* empty registry without raising; for a motion type without an entry the
\* Chat page shows the 'create it in Admin' message and stops, and no turn
\* (extraction, drafting request, history append) runs for a category that
\* has no registered store; only 'Clear chat' can change the history then.
C19_UnregisteredCategoryIsGated ==
    [][/\ NoRegistryOnDisk =>
             (~Loaded.raised /\ Loaded.value.vector_stores = EmptyDict)
       /\ \A label \in MotionLabels :
             ShowsNotFound(label) =>
                 /\ slug_of(label) \notin DOMAIN Registry
                 /\ pc' = "idle" /\ history' = history
                 /\ Registry' = Registry
       /\ \A slug \in DOMAIN MOTION_OPTIONS :
             (pc = "idle" /\ slug \notin DOMAIN Registry) =>
                 /\ (history' = history \/ ClearChat)
                 /\ CallsIn(log', "gem_extract") = <<>>
                 /\ CallsIn(log', "responses.create") = <<>>
                 /\ pc' # "idle" => slug_of(motion_label') # slug
       /\ pc' # "idle" => slug_of(motion_label') \in DOMAIN Registry']_vars

\* the file holds no vector_stores key and the Chat page has just refused
\* the selected motion type
C19_Witness ==
    /\ configFile.exists /\ NoRegistryOnDisk
    /\ pc = "idle" /\ history = <<>>
    /\ log = <<[op |-> "st.error",
                motion_type |-> MOTION_OPTIONS.value_claim,
                about |-> NOT_FOUND_MESSAGE]>>

\* the latest script run died loading the configuration
DiedLoading ==
    \E j \in 1..Len(log) : log[j].op = "load_cfg" /\ log[j].raised

\* the turn before ended with the empty answer of a failed call
LastAnswerEmpty ==
    /\ pc = "idle" /\ history # <<>>
    /\ history[Len(history)] =
           [role |-> "assistant", content |-> <<>>, files |-> <<>>]

\* a prompt can be submitted and starts a turn
CanSubmit ==
    ENABLED (\E prompt \in Prompts, params \in ParamPool, files \in Uploads :
                 Submit(prompt, params, files))

\* C20: after a fatal error the session stays usable: after a turn that
\* ended with the empty answer of a failed dispatch the next prompt is
\* processed (while a store is registered), and after a run that died on an
\* unparseable configuration file the user can still submit a prompt or
\* reset the workspace.
C20_SessionUsableAfterFatalError ==
    /\ (LastAnswerEmpty /\ RunStarts /\ DOMAIN Registry # {}
           /\ uploader_key < TurnBudget) => CanSubmit
    /\ DiedLoading => (CanSubmit \/ ENABLED ResetWorkspace)

\* the labels a user can select as motion type, the placeholder excluded
SelectableMotionTypes == {MOTION_OPTIONS[k] : k \in DOMAIN MOTION_OPTIONS}

\* the text begins with the three labeled lines, and what follows them
\* starts on a new line
BeginsWithThreeLines(text) ==
    /\ Len(text) >= 8
    /\ text[1] = "Motion type: " /\ text[2] \in SelectableMotionTypes
    /\ text[3] = "\n"
    /\ text[4] = "Jurisdiction: " /\ text[5] # ""
    /\ text[6] = "\n"
    /\ text[7] = "Chapter: " /\ text[8] # ""
    /\ Len(text) > 8 => text[9] = "\n"

\* C21: every motion context handed to the drafting call begins with the
\* three labeled lines for motion type, jurisdiction and chapter, in that
\* order; an empty jurisdiction or chapter is written '(unspecified)', and
\* the motion type is a selected one, never the placeholder.
C21_ContextBeginsWithThreeLines ==
    /\ ContextBuilt =>
          /\ BeginsWithThreeLines(motion_context)
          /\ motion_context[2] = motion_label
          /\ motion_context[5] = IF juris = "" THEN "(unspecified)" ELSE juris
          /\ motion_context[8] = IF chapter = "" THEN "(unspecified)" ELSE chapter
    /\ \A j \in 1..Len(log) :
          log[j].op = "responses.create" =>
              /\ log[j].input[2].content = motion_context
              /\ BeginsWithThreeLines(log[j].input[2].content)

\* a request whose context has defaulted lines and an extraction section
C21_Witness ==
    /\ pc = "stream" /\ juris = "" /\ chapter = ""
    /\ extract_blocks # <<>>
    /\ motion_context[5] = "(unspecified)" /\ motion_context[8] = "(unspecified)"
    /\ Len(motion_context) > 9
    /\ Len(CallsIn(log, "responses.create")) = 1

\* what a call of stream_response_with_file_search that has ended returned:
\* the tuple of `return full_text, files_to_download` (or of `return "", []`)
returned == <<answer, new_files>>

RECURSIVE Concat(_)
Concat(ss) == IF ss = <<>> THEN <<>> ELSE Head(ss) \o Concat(Tail(ss))

\* every annotation of a retrieved response, in the order of the response
AnnotationsOf(r) ==
    IF ~hasattr(r, "output") THEN <<>>
    ELSE Concat([a \in 1..Len(r.output) |->
            IF ~hasattr(r.output[a], "content") THEN <<>>
            ELSE Concat([b \in 1..Len(r.output[a].content) |->
                    IF hasattr(r.output[a].content[b], "annotations")
                    THEN r.output[a].content[b].annotations
                    ELSE <<>>])])

\* the retrieval (file_search) citations of a retrieved response
RetrievalCitations(r) ==
    SelectSeq(AnnotationsOf(r),
              LAMBDA a : hasattr(a, "type") /\ a.type = "file_citation")

\* C22: when the post-stream retrieval obtained retrieval citations, the
\* call returns them, in the order of the backend, next to the answer text
\* and the artifacts.
C22_CitationsReturned ==
    pc = "record" =>
        \A j \in 1..Len(log) :
            (/\ log[j].op = "responses.retrieve" /\ ~log[j].raised
             /\ RetrievalCitations(log[j].result.response) # <<>>)
            => /\ Len(returned) >= 3
               /\ returned[3] = RetrievalCitations(log[j].result.response)

\* the calls of the reconcile step: the local handler and its download
ReconcileOps == {"convert_html_to_pdf", "requests.get"}

\* C23: the steps of one call occur in the stated order: the stream is
\* consumed before every post-stream call, the follow-up retrieval is issued
\* next, and only after it are the observed function calls executed and
\* their files downloaded.
C23_FinalizeBeforeReconcile ==
    \A j, k \in 1..Len(log) :
        /\ (log[j].op = "stream"
               /\ log[k].op \in ReconcileOps \cup {"responses.retrieve"})
           => j < k
        /\ (log[j].op = "responses.retrieve" /\ log[k].op \in ReconcileOps)
           => j < k

\* the ids of the stores an operation provisioned (the id of a store is its
\* position in backend_stores)
Provisioned == (Len(backend_stores) + 1)..Len(backend_stores')

\* C24: when an operation ends, every store it provisioned is held by an
\* entry of the persisted registry, also when a later creation of the same
\* operation failed.
C24_ProvisionedStoresArePersisted ==
    [][\A id \in Provisioned :
          \E slug \in DOMAIN Registry' : Registry'[slug] = id]_vars

\* C25: the persisted registry holds one store id per category, a category
\* that has an entry keeps an entry through every operation but 'Reset
\* workspace', and 'Reset workspace' removes all entries at once.
C25_EntriesLostOnlyByReset ==
    [][/\ IF ResetWorkspace
          THEN Registry' = EmptyDict
          ELSE DOMAIN Registry \subseteq DOMAIN Registry'
       /\ \A slug \in DOMAIN Registry' :
             Registry'[slug] \in 1..Len(backend_stores')]_vars

\* both categories were registered and used in a chat, then the workspace
\* was reset
C25_Witness ==
    /\ pc = "idle" /\ Authenticated
    /\ ~configFile.exists /\ Registry = EmptyDict
    /\ Len(backend_stores) >= 2 /\ Len(history) >= 2

BLOCK_HEADER == "EXTRACTED_FROM_UPLOAD File name ("

\* the file names of the extraction blocks a text holds, in order
RECURSIVE BlockNamesIn(_)
BlockNamesIn(text) ==
    IF Len(text) < 2 THEN <<>>
    ELSE (IF Head(text) = BLOCK_HEADER THEN <<text[2]>> ELSE <<>>)
         \o BlockNamesIn(Tail(text))

UploadedNames == {uploaded[k].name : k \in 1..Len(uploaded)}

\* C26: extraction results are turn-scoped: a turn starts without any, its
\* motion context holds blocks only for the files uploaded with it, which
\* were extracted in this turn; the end of a completed turn renews the
\* uploader and drops the files and the results, and between turns nothing
\* but the stored history is kept.
C26_ExtractionsAreTurnScoped ==
    [][/\ ContextBuilt =>
             /\ Len(CallsIn(log, "gem_extract")) = Len(uploaded)
             /\ \A k \in 1..Len(uploaded) :
                   CallsIn(log, "gem_extract")[k].file = uploaded[k].name
             /\ Range(BlockNamesIn(motion_context)) \subseteq UploadedNames
             /\ Len(BlockNamesIn(motion_context)) = Len(extract_blocks)
             /\ Len(extract_blocks) <= Len(uploaded)
       /\ (pc = "idle" /\ pc' = "extract") =>
             /\ extract_blocks' = <<>> /\ blobs_for_history' = <<>>
             /\ CallsIn(log', "gem_extract") = <<>>
       /\ (pc = "record" /\ pc' = "idle") =>
             /\ uploader_key' # uploader_key /\ uploaded' = <<>>
       /\ pc' = "idle" =>
             /\ extract_blocks' = <<>> /\ blobs_for_history' = <<>>
             /\ motion_context' = <<>> /\ conversation_history' = <<>>]_vars

\* the request of a second turn without files, after a first turn with one
C26_Witness ==
    /\ pc = "stream" /\ Len(history) = 3
    /\ history[1].files # <<>> /\ uploaded = <<>>
    /\ BlockNamesIn(motion_context) = <<>>
    /\ uploader_key = 1

\* C27: within a turn the files are extracted one at a time in upload order
\* (the k-th extraction is that of the k-th file, and file k + 1 is not
\* started before file k is done), and every extraction is finished before
\* the user turn is recorded and before the drafting request is dispatched.
C27_ExtractionsSequentialBeforeDispatch ==
    pc # "idle" =>
        LET done == CallsIn(log, "gem_extract") IN
        /\ Len(done) <= Len(uploaded)
        /\ \A k \in 1..Len(done) : done[k].file = uploaded[k].name
        /\ pc = "extract" => (Len(done) = i - 1 /\ Len(history) = hist0)
        /\ \A p \in 1..Len(log) :
              log[p].op \in {"history.append", "responses.create"} =>
                  /\ Len(done) = Len(uploaded)
                  /\ \A q \in 1..Len(log) : log[q].op = "gem_extract" => q < p

\* two files were read, notes.txt first, and the request was dispatched
C27_Witness ==
    /\ pc = "stream" /\ Len(uploaded) = 2
    /\ uploaded[1].name = "notes.txt" /\ uploaded[2].name = "schedule.pdf"
    /\ Len(CallsIn(log, "gem_extract")) = 2
    /\ CallsIn(log, "gem_extract")[1].file = "notes.txt"
    /\ Len(CallsIn(log, "responses.create")) = 1

\* the turn submitted when the history had n turns is complete: the run is
\* over, a user turn and an assistant turn were appended and the uploader
\* has been reset
TurnRecorded(n) ==
    /\ pc = "idle" /\ Len(history) = n + 2
    /\ history[n + 1].role = "user" /\ history[n + 2].role = "assistant"
    /\ uploader_key = (n \div 2) + 1

\* C28: every submission that passed the gating eventually ends with the
\* history grown by one user turn followed by one assistant turn and the
\* uploader reset.
C28_SubmissionEventuallyRecorded ==
    \A n \in {0, 2} :
        (pc = "extract" /\ Len(history) = n) ~> TurnRecorded(n)

\* C29: until the application password has been entered no Admin or Chat
\* operation happens (no change of the registry, the stores or the history,
\* no turn); a wrong password marks the session incorrect, keeps it locked
\* and shows the prompt again; an accepted password keeps the session
\* authenticated ever after and is removed from the session state.
C29_PasswordGatesEverything ==
    [][/\ ~Authenticated =>
             /\ UNCHANGED <<configFile, backend_stores, history,
                            schedule_uploaded, uploader_key>>
             /\ pc' = "idle"
             /\ CallsIn(log', "vector_stores.create") = <<>>
       /\ password_correct' = "False" =>
             /\ ~compare_digest(password', APP_PASSWORD)
             /\ log' = <<[op |-> "st.error", about |-> "Password incorrect"]>>
       /\ Authenticated => Authenticated'
       /\ Authenticated' => password' = "absent"]_vars

\* a wrong password has been entered
C29_Witness ==
    /\ password_correct = "False" /\ password = "guess"
    /\ log = <<[op |-> "st.error", about |-> "Password incorrect"]>>
    /\ history = <<>> /\ pc = "idle"

\* the record convert_html_to_pdf promises
IsConversionRecord(r) ==
    /\ DOMAIN r = {"success", "url", "filename", "error"}
    /\ r.success \in BOOLEAN
    /\ r.success <=> (r.url # None /\ r.error = None)

\* C30: every call of convert_html_to_pdf returns, whatever the conversion
\* service did, a record with success, url, filename and error in which
\* success is true exactly when url is set and error is not, and filename is
\* the requested one; handle_function_call answers an unknown function name
\* with a failure record.
C30_ConversionNeverRaises ==
    /\ \A j \in 1..Len(log) :
          log[j].op = "convert_html_to_pdf" =>
              /\ ~log[j].raised
              /\ IsConversionRecord(log[j].result)
              /\ log[j].result.filename =
                     dict_get(log[j].function_args, "filename", "document.pdf")
    /\ \A svc \in AllPdfServices, name \in {"lookup", ""} :
          LET r == handle_function_call(name, EmptyDict, svc)
          IN hasattr(r, "success") /\ ~r.success /\ hasattr(r, "error")

\* the conversion service timed out for Motion.pdf
C30_Witness ==
    \E j \in 1..Len(log) :
        /\ log[j].op = "convert_html_to_pdf"
        /\ log[j].result = [success |-> FALSE, url |-> None,
                            filename |-> "Motion.pdf", error |-> "timeout"]


\* ---------------------------------------------------------------- C31
\* a part x of the state that outlives a script run is changed by both
\* buttons: here a click on either one would give x a new value
BothChange(x) ==
    /\ ENABLED (ResetWorkspace /\ x' # x)
    /\ ENABLED (ClearChat /\ x' # x)

\* lines 732-737: the config file is gone, so the next run loads an empty
\* registry; the conversation, the login, the uploader and the stores the
\* backend holds are as they were
ResetFrame ==
    ResetWorkspace =>
        /\ ~configFile'.exists
        /\ Registry' = EmptyDict
        /\ history' = history
        /\ UNCHANGED <<backend_stores, password_correct, password, uploader_key>>

\* lines 740-744: the conversation is empty; the config file, the registry
\* read from it, the login, the uploader and the stores are as they were
ClearFrame ==
    ClearChat =>
        /\ history' = <<>>
        /\ configFile' = configFile
        /\ Registry' = Registry
        /\ UNCHANGED <<backend_stores, password_correct, password, uploader_key>>

\* C31 as stated: "Reset workspace" and "Clear chat" affect disjoint state
\* (nothing that outlives a script run is changed by both), "Reset
\* workspace" deletes the persisted registry and leaves the history
\* unchanged, and "Clear chat" empties the history and leaves the registry
\* and the config file unchanged.
C31_ButtonsAffectDisjointState ==
    /\ [](/\ ~BothChange(configFile) /\ ~BothChange(backend_stores)
          /\ ~BothChange(password_correct) /\ ~BothChange(password)
          /\ ~BothChange(history) /\ ~BothChange(uploader_key)
          /\ ~BothChange(schedule_uploaded))
    /\ [][ResetFrame /\ ClearFrame]_vars

\* C31, amended: the two buttons overlap on st.session_state.schedule_uploaded,
\* which each of them sets to False, and on nothing else that outlives a
\* script run: "Reset workspace" deletes the persisted registry and leaves
\* the history unchanged, "Clear chat" empties the history and leaves the
\* registry and the config file unchanged.
C31_ButtonsOverlapOnlyOnScheduleFlag ==
    /\ [](/\ ~BothChange(configFile) /\ ~BothChange(backend_stores)
          /\ ~BothChange(password_correct) /\ ~BothChange(password)
          /\ ~BothChange(history) /\ ~BothChange(uploader_key))
    /\ [][/\ ResetFrame /\ ClearFrame
          /\ (ResetWorkspace \/ ClearChat) => schedule_uploaded' = FALSE]_vars

\* a request is in flight that replays an earlier turn against a store
\* provisioned after a reset: the earlier turn uploaded a PDF (which set
\* schedule_uploaded) and is still in the history, so the flag was cleared
\* by "Reset workspace", and the category was registered again afterwards
C31_Witness ==
    /\ pc = "stream"
    /\ Len(history) = 3 /\ Len(conversation_history) = 3
    /\ history[1].files # <<>> /\ history[3].files = <<>>
    /\ schedule_uploaded = FALSE
    /\ configFile.exists
    /\ vector_store_ids[1] \in DOMAIN backend_stores

====
